---- MODULE Spec2Model ----
(***************************************************************************)
(* Model of the SPIMEX trading API: the daily-anchored Redis cache         *)
(* (app/cache.py), the query service (app/services/trading.py) and the     *)
(* three query handlers plus the cache-invalidation handler (main.py).     *)
(*                                                                         *)
(* Python values are modelled as records: an Optional[int] is <<>> (None)  *)
(* or <<n>>; a datetime is a record of its seven fields; JSON text is a    *)
(* tree whose strings are tagged, so that json.dumps(default=str) followed *)
(* by json.loads is not the identity.                                      *)
(***************************************************************************)
EXTENDS Integers, Sequences, FiniteSets, TLC

VARIABLES now, ticks, settings, ttlLog

\* ------------------------------------------------------------------ bounds
\* The number of times the wall clock is advanced in one behaviour.
MaxTicks == 1

\* ---------------------------------------------------------- Python datetime
DT(y, mo, d, h, mi, s, us) == [year |-> y, month |-> mo, day |-> d, hour |-> h, minute |-> mi, second |-> s, microsecond |-> us]

SecondsPerDay == 24 * 60 * 60

MicrosPerSecond == 1000 * 1000

IsLeap(y) == (y % 4 = 0 /\ y % 100 # 0) \/ y % 400 = 0

DaysInMonth(y, m) == IF m = 2 THEN (IF IsLeap(y) THEN 29 ELSE 28) ELSE IF m \in {4, 6, 9, 11} THEN 30 ELSE 31

RECURSIVE DaysBeforeMonth(_, _)
DaysBeforeMonth(y, m) == IF m = 1 THEN 0 ELSE DaysBeforeMonth(y, m - 1) + DaysInMonth(y, m - 1)

DaysBeforeYear(y) == (y - 1) * 365 + (y - 1) \div 4 - (y - 1) \div 100 + (y - 1) \div 400

\* date.toordinal(): the proleptic Gregorian day number of dt's date.
ToOrdinal(dt) == DaysBeforeYear(dt.year) + DaysBeforeMonth(dt.year, dt.month) + dt.day

SecondOfDay(dt) == dt.hour * 3600 + dt.minute * 60 + dt.second

\* datetime.time(): the wall-clock part, compared lexicographically.
TimeOf(dt) == <<dt.hour, dt.minute, dt.second, dt.microsecond>>

\* time(hour, minute) raises ValueError ("hour must be in 0..23", "minute must
\* be in 0..59") for arguments outside these ranges.
TimeArgsOk(h, mi) == h \in 0..23 /\ mi \in 0..59

\* time(hour, minute): seconds and microseconds default to 0.
MkTime(h, mi) == <<h, mi, 0, 0>>

\* a >= b for two time objects.
TimeGE(a, b) == \/ a[1] > b[1]
                \/ a[1] = b[1] /\ a[2] > b[2]
                \/ a[1] = b[1] /\ a[2] = b[2] /\ a[3] > b[3]
                \/ a[1] = b[1] /\ a[2] = b[2] /\ a[3] = b[3] /\ a[4] >= b[4]

\* now.replace(hour=h, minute=mi, second=0, microsecond=0): h, mi are in range.
ReplaceTime(dt, h, mi) == [dt EXCEPT !.hour = h, !.minute = mi, !.second = 0, !.microsecond = 0]

\* dt.replace(day=d): raises ValueError when the month has no day d.
ReplaceDayOk(dt, d) == 1 <= d /\ d <= DaysInMonth(dt.year, dt.month)

ReplaceDay(dt, d) == [dt EXCEPT !.day = d]

\* int((a - b).total_seconds()): the timedelta a - b is days/seconds/microseconds,
\* total_seconds() its value as a float, int() truncates toward zero.
IntTotalSeconds(a, b) == LET secs == (ToOrdinal(a) - ToOrdinal(b)) * SecondsPerDay + (SecondOfDay(a) - SecondOfDay(b))
                             us == a.microsecond - b.microsecond
                             nonneg == secs > 0 \/ (secs = 0 /\ us >= 0)
                         IN  IF nonneg THEN (IF us >= 0 THEN secs ELSE secs - 1)
                                       ELSE (IF us <= 0 THEN secs ELSE secs + 1)

\* The date after dt's date (calendar-safe), time of day kept.
NextDay(dt) == IF dt.day < DaysInMonth(dt.year, dt.month) THEN [dt EXCEPT !.day = dt.day + 1]
               ELSE IF dt.month < 12 THEN [dt EXCEPT !.day = 1, !.month = dt.month + 1]
               ELSE [dt EXCEPT !.day = 1, !.month = 1, !.year = dt.year + 1]

RECURSIVE PlusDays(_, _)
PlusDays(dt, k) == IF k = 0 THEN dt ELSE PlusDays(NextDay(dt), k - 1)

\* dt advanced by d = <<seconds, microseconds>>.
Plus(dt, d) == LET us == dt.microsecond + d[2]
                   s == SecondOfDay(dt) + d[1] + us \div MicrosPerSecond
                   sod == s % SecondsPerDay
                   base == PlusDays(dt, s \div SecondsPerDay)
               IN  [base EXCEPT !.hour = sod \div 3600, !.minute = (sod % 3600) \div 60, !.second = sod % 60, !.microsecond = us % MicrosPerSecond]

\* a is strictly before b.
Before(a, b) == \/ ToOrdinal(a) < ToOrdinal(b)
                \/ ToOrdinal(a) = ToOrdinal(b) /\ ~TimeGE(TimeOf(a), TimeOf(b))

\* ------------------------------------------------------------ RedisCache
\* The outcome of a call: the value returned, or the exception raised.
Returned(v) == [exc |-> "", ttl |-> v]

Raised(e) == [exc |-> e, ttl |-> 0]

AtOrPastTarget(n, cfg) == TimeGE(TimeOf(n), MkTime(cfg.CACHE_RESET_HOUR, cfg.CACHE_RESET_MINUTE))

\* _get_ttl with the seconds rounded up instead of truncated.
_get_ttl_RoundsUp(n, cfg) == LET today == ReplaceTime(n, cfg.CACHE_RESET_HOUR, cfg.CACHE_RESET_MINUTE)
                                 up == IF n.microsecond > 0 THEN 1 ELSE 0
                             IN  IF AtOrPastTarget(n, cfg)
                                 THEN IF ReplaceDayOk(today, today.day + 1)
                                      THEN Returned(IntTotalSeconds(ReplaceDay(today, today.day + 1), n) + up)
                                      ELSE Raised("ValueError")
                                 ELSE Returned(IntTotalSeconds(today, n) + up)

\* RedisCache._get_ttl with datetime.now() = n and the settings cfg.
_get_ttl(n, cfg) == LET today == ReplaceTime(n, cfg.CACHE_RESET_HOUR, cfg.CACHE_RESET_MINUTE)
                    IN  IF ~TimeArgsOk(cfg.CACHE_RESET_HOUR, cfg.CACHE_RESET_MINUTE)
                        THEN Raised("ValueError")
                        ELSE IF AtOrPastTarget(n, cfg)
                        THEN IF ReplaceDayOk(today, today.day + 1)
                             THEN Returned(IntTotalSeconds(ReplaceDay(today, today.day + 1), n))
                             ELSE Raised("ValueError")
                        ELSE Returned(IntTotalSeconds(today, n))

\* json.dumps(value, default=str) and json.loads.  A Python value is a record
\* tagged py; the JSON text is modelled by its document tree, whose strings are
\* tagged json.  str(datetime) is "YYYY-MM-DD HH:MM:SS[.ffffff]"; str(orm row) is
\* object.__repr__, "<app.models.database.SpimexTradingResult object at 0x..>".
PyNone == [py |-> "None"]

PyDatetime(dt) == [py |-> "datetime", dt |-> dt]

PyStr(s) == [py |-> "str", s |-> s]

PyRow(row) == [py |-> "SpimexTradingResult", row |-> row]

JStr(s) == [json |-> "string", s |-> s]

StrOfDatetime(dt) == [text |-> "YYYY-MM-DD HH:MM:SS", of |-> dt]

StrOfObject(o) == [text |-> "<SpimexTradingResult object at 0x..>", id |-> o.row.id]

\* default=str, applied by json.dumps to what it cannot serialise itself.
DumpsItem(v) == IF v.py = "datetime" THEN JStr(StrOfDatetime(v.dt))
                ELSE IF v.py = "SpimexTradingResult" THEN JStr(StrOfObject(v))
                ELSE JStr(v.s)

Dumps(v) == [f \in DOMAIN v |-> IF f = "total" THEN v[f]
                                ELSE IF f \in {"dates", "result"} THEN [i \in DOMAIN v[f] |-> DumpsItem(v[f][i])]
                                ELSE DumpsItem(v[f])]

LoadsItem(j) == PyStr(j.s)

Loads(doc) == [f \in DOMAIN doc |-> IF f = "total" THEN doc[f]
                                    ELSE IF f \in {"dates", "result"} THEN [i \in DOMAIN doc[f] |-> LoadsItem(doc[f][i])]
                                    ELSE LoadsItem(doc[f])]

\* Python truthiness of None and of a dict.
Truthy(v) == v # PyNone /\ DOMAIN v # {}

\* The Redis database: key -> entry.  An entry lives until expires_at; Redis
\* never returns an expired entry (passive expiry on access).
Alive(db, k, n) == k \in DOMAIN db /\ Before(n, db[k].expires_at)

\* redis_client.get(key): the stored text, or None.
RedisGet(db, k, n) == IF Alive(db, k, n) THEN db[k].data ELSE PyNone

\* A get that also removes the entry it reads (GETDEL).
RedisAfterGet_Del(db, k) == [x \in DOMAIN db \ {k} |-> db[x]]

\* The database redis_client.get(key) leaves: GET writes nothing.
RedisAfterGet(db, k) == db

\* redis_client.setex(key, ttl, data): Redis refuses a ttl <= 0
\* ("invalid expire time in 'setex' command"), redis-py raises ResponseError.
SetexOk(ttl) == ttl > 0

RedisSetex(db, k, ttl, data, n) == [x \in DOMAIN db \cup {k} |-> IF x = k THEN [data |-> data, expires_at |-> Plus(n, <<ttl, 0>>)] ELSE db[x]]

\* A delete that drops every key.
RedisDelete_All(db, k) == <<>>

\* redis_client.delete(key)
RedisDelete(db, k) == [x \in DOMAIN db \ {k} |-> db[x]]

\* A flush that drops a single entry.
RedisFlushdb_Oldest(db) == IF DOMAIN db = {} THEN db ELSE LET k == CHOOSE x \in DOMAIN db : TRUE IN [x \in DOMAIN db \ {k} |-> db[x]]

\* redis_client.flushdb()
RedisFlushdb(db) == <<>>

\* RedisCache.get
CacheGet(db, k, n) == LET data == RedisGet(db, k, n) IN IF data # PyNone THEN Loads(data) ELSE PyNone

\* A get that answers None when Redis cannot be reached.
GetOutcome_Swallow(db, k, n, reachable) == [exc |-> "", value |-> IF reachable THEN CacheGet(db, k, n) ELSE PyNone]

\* RedisCache.get as a call: the value it returns, or the exception it ends
\* with.  When Redis cannot be reached redis_client.get raises ConnectionError,
\* and nothing in get catches it.
GetOutcome(db, k, n, reachable) == IF reachable THEN [exc |-> "", value |-> CacheGet(db, k, n)] ELSE [exc |-> "ConnectionError", value |-> PyNone]

\* set with `if not ttl` in place of `if ttl is None`.
SetTtl_Falsy(ttl, n, cfg) == IF ttl = <<>> \/ ttl = <<0>> THEN _get_ttl(n, cfg) ELSE Returned(ttl[1])

\* The ttl RedisCache.set hands to setex: ttl is <<>> (None) or <<seconds>>.
SetTtl(ttl, n, cfg) == IF ttl = <<>> THEN _get_ttl(n, cfg) ELSE Returned(ttl[1])

\* The expiry RedisCache.set passes to redis_client.setex: <<seconds>>, or <<>>
\* when set ends before the call because _get_ttl raised.  Nothing between
\* `ttl = self._get_ttl()` and the setex call inspects the value.
SetexTtl(ttl, n, cfg) == LET t == SetTtl(ttl, n, cfg) IN IF t.exc # "" THEN <<>> ELSE <<t.ttl>>

\* RedisCache.set: the exception it ends with, "" when it returns.
CacheSetExc(ttl, n, cfg) == LET t == SetTtl(ttl, n, cfg)
                            IN  IF t.exc # "" THEN t.exc ELSE IF SetexOk(t.ttl) THEN "" ELSE "ResponseError"

\* RedisCache.set: the database it leaves.
CacheSet(db, k, value, ttl, n, cfg) == IF CacheSetExc(ttl, n, cfg) = "" THEN RedisSetex(db, k, SetTtl(ttl, n, cfg).ttl, Dumps(value), n) ELSE db

\* -------------------------------------------------------- TradingService
\* a <= b for two datetimes.
DtLE(a, b) == ~Before(b, a)

Min(a, b) == IF a < b THEN a ELSE b

\* The supplied filters combined with OR.
Matches_Or(r, oil_id, delivery_type_id, delivery_basis_id) == \/ (oil_id = <<>> /\ delivery_type_id = <<>> /\ delivery_basis_id = <<>>)
                                                              \/ (oil_id # <<>> /\ r.oil_id = oil_id[1])
                                                              \/ (delivery_type_id # <<>> /\ r.delivery_type_id = delivery_type_id[1])
                                                              \/ (delivery_basis_id # <<>> /\ r.delivery_basis_id = delivery_basis_id[1])

\* A filter is <<>> (None: no restriction) or <<id>>.
Matches(r, oil_id, delivery_type_id, delivery_basis_id) == /\ (oil_id # <<>> => r.oil_id = oil_id[1])
                                                           /\ (delivery_type_id # <<>> => r.delivery_type_id = delivery_type_id[1])
                                                           /\ (delivery_basis_id # <<>> => r.delivery_basis_id = delivery_basis_id[1])

\* The rows of the earliest trading_date.
Latest_Earliest(S) == {x \in S : \A y \in S : DtLE(x.trading_date, y.trading_date)}

\* The rows that may come first under ORDER BY trading_date DESC: those of the latest trading_date.
Latest(S) == {x \in S : \A y \in S : DtLE(y.trading_date, x.trading_date)}

\* ORDER BY trading_date DESC over the rows S: every listing of S, each row once,
\* in which no row precedes one of a later trading_date.  The database fixes no
\* order among rows of equal trading_date.
RECURSIVE OrderByDateDesc(_)
OrderByDateDesc(S) == IF S = {} THEN {<<>>}
                      ELSE UNION {{<<r>> \o s : s \in OrderByDateDesc(S \ {r})} : r \in Latest(S)}

\* LIMIT n
Limit(s, n) == SubSeq(s, 1, Min(n, Len(s)))

\* The values D listed from the latest to the earliest.
RECURSIVE SortDesc(_)
SortDesc(D) == IF D = {} THEN <<>> ELSE LET m == CHOOSE x \in D : \A y \in D : DtLE(y, x) IN <<m>> \o SortDesc(D \ {m})

\* The dates query without DISTINCT: one value per record.
get_last_trading_dates_NoDistinct(st, limit) == LET rows == CHOOSE q \in OrderByDateDesc(st) : TRUE IN Limit([i \in DOMAIN rows |-> rows[i].trading_date], limit)

\* SELECT DISTINCT trading_date ... ORDER BY trading_date DESC LIMIT limit
get_last_trading_dates(st, limit) == Limit(SortDesc({r.trading_date : r \in st}), limit)

\* BETWEEN with the upper bound taken as the whole day of hi.
Between_EndOfDay(d, lo, hi) == DtLE(lo, d) /\ ToOrdinal(d) <= ToOrdinal(hi)

\* BETWEEN with both bounds excluded.
Between_Exclusive(d, lo, hi) == Before(lo, d) /\ Before(d, hi)

\* trading_date.between(start_date, end_date): SQL BETWEEN, both bounds included.
Between(d, lo, hi) == DtLE(lo, d) /\ DtLE(d, hi)

\* SELECT * WHERE trading_date BETWEEN start AND end [AND filters] ORDER BY trading_date DESC:
\* the sequences the query may return.
get_dynamics(st, start_date, end_date, oil_id, delivery_type_id, delivery_basis_id) == OrderByDateDesc({r \in st : /\ Between(r.trading_date, start_date, end_date)
                                                                                                                  /\ Matches(r, oil_id, delivery_type_id, delivery_basis_id)})

\* The results query with LIMIT applied before the filters.
get_trading_result_LimitFirst(st, oil_id, delivery_type_id, delivery_basis_id, limit) == {SelectSeq(Limit(s, limit), LAMBDA r : Matches(r, oil_id, delivery_type_id, delivery_basis_id)) : s \in OrderByDateDesc(st)}

\* SELECT * [WHERE filters] ORDER BY trading_date DESC LIMIT limit
get_trading_result(st, oil_id, delivery_type_id, delivery_basis_id, limit) == {Limit(s, limit) : s \in OrderByDateDesc({r \in st : Matches(r, oil_id, delivery_type_id, delivery_basis_id)})}

\* ---------------------------------------------------------------- main.py
\* f"{x}" of an int or None, and datetime.isoformat(), as tokens of the key.
FmtOpt(x) == IF x = <<>> THEN [s |-> "None"] ELSE [int |-> x[1]]

Colon == [s |-> ":"]

IsoFormat(dt) == <<[iso |-> <<dt.year, dt.month, dt.day, dt.hour>>], Colon, [d2 |-> dt.minute], Colon, [d2 |-> dt.second]>> \o (IF dt.microsecond = 0 THEN <<>> ELSE <<[s |-> "."], [d6 |-> dt.microsecond]>>)

\* cache_key of the three query handlers.
DatesKey(a) == <<[s |-> "trading_dates"], Colon, FmtOpt(a.limit)>>

DynamicsKey(a) == <<[s |-> "dynamics"], Colon>> \o IsoFormat(a.start_date[1]) \o <<Colon>> \o IsoFormat(a.end_date[1]) \o <<Colon, FmtOpt(a.oil_id), Colon, FmtOpt(a.delivery_type_id), Colon, FmtOpt(a.delivery_basis_id)>>

\* The results key without the limit.
ResultsKey_NoLimit(a) == <<[s |-> "trading_results"], Colon, FmtOpt(a.oil_id), Colon, FmtOpt(a.delivery_type_id), Colon, FmtOpt(a.delivery_basis_id)>>

ResultsKey(a) == <<[s |-> "trading_results"], Colon, FmtOpt(a.oil_id), Colon, FmtOpt(a.delivery_type_id), Colon, FmtOpt(a.delivery_basis_id), Colon, FmtOpt(a.limit)>>

CacheKey(a) == IF a.endpoint = "dates" THEN DatesKey(a) ELSE IF a.endpoint = "dynamics" THEN DynamicsKey(a) ELSE ResultsKey(a)

\* (a - b).days for a >= b: whole days of the difference.
TimedeltaDays(a, b) == (ToOrdinal(a) - ToOrdinal(b)) - (IF TimeGE(TimeOf(a), TimeOf(b)) THEN 0 ELSE 1)

\* Query(..., ge=0, le=le) in place of gt=0.
QueryGtLe_Ge(x, le) == x >= 0 /\ x <= le

\* Query(..., gt=0, le=le): the bounds FastAPI checks before the handler runs.
QueryGtLe(x, le) == x > 0 /\ x <= le

\* `start_date > end_date` with the dates compared by day only.
StartAfterEnd_ByDay(a) == ToOrdinal(a.end_date[1]) < ToOrdinal(a.start_date[1])

\* `if start_date > end_date`
StartAfterEnd(a) == Before(a.end_date[1], a.start_date[1])

\* `if (end_date - start_date).days > 365`
PeriodTooLong(a) == TimedeltaDays(a.end_date[1], a.start_date[1]) > 365

\* The status a request is refused with before the handler body touches the
\* cache: 422 from the Query(gt=0, le=..) declarations, 400 from get_dynamics'
\* own checks; 0 when the request is accepted.
Refusal(a) == IF a.endpoint = "dates" THEN (IF QueryGtLe(a.limit[1], 100) THEN 0 ELSE 422)
              ELSE IF a.endpoint = "results" THEN (IF QueryGtLe(a.limit[1], 1000) THEN 0 ELSE 422)
              ELSE IF StartAfterEnd(a) THEN 400
              ELSE IF PeriodTooLong(a) THEN 400
              ELSE 0

\* A hit test that also wants a non-empty result.
IsHit_NonEmpty(cached_data) == Truthy(cached_data) /\ cached_data.total > 0

\* `if cached_data: return cached_data`
IsHit(cached_data) == Truthy(cached_data)

\* A query that also deletes the records it read.
StoreAfterQuery_Purge(st, a) == {}

\* The Record Store a TradingService call leaves: each method executes one
\* SELECT and never adds, deletes, flushes or commits; get_db only closes the
\* session.
StoreAfterQuery(st, a) == st

\* The sequences the handler's service call may return.
ServiceResults(st, a) == IF a.endpoint = "dates" THEN {[i \in DOMAIN get_last_trading_dates(st, a.limit[1]) |-> PyDatetime(get_last_trading_dates(st, a.limit[1])[i])]}
                         ELSE IF a.endpoint = "dynamics" THEN {[i \in DOMAIN s |-> PyRow(s[i])] : s \in get_dynamics(st, a.start_date[1], a.end_date[1], a.oil_id, a.delivery_type_id, a.delivery_basis_id)}
                         ELSE {[i \in DOMAIN s |-> PyRow(s[i])] : s \in get_trading_result(st, a.oil_id, a.delivery_type_id, a.delivery_basis_id, a.limit[1])}

\* A service call that answers with no rows when the database cannot be reached.
QueryOutcomes_Swallow(st, a, reachable) == IF reachable THEN {[exc |-> "", results |-> res] : res \in ServiceResults(st, a)} ELSE {[exc |-> "", results |-> <<>>]}

\* `await service.get_...()` as a call: the sequence it returns, or the
\* exception it ends with.  When the database cannot be reached
\* session.execute raises (sqlalchemy.exc.DBAPIError, or the driver's OSError),
\* and neither TradingService nor the handler catches or retries it.
QueryOutcomes(st, a, reachable) == IF reachable THEN {[exc |-> "", results |-> res] : res \in ServiceResults(st, a)} ELSE {[exc |-> "DBAPIError", results |-> <<>>]}

\* A response whose total is the number of items asked for.
Response_TotalIsLimit(a, results) == IF a.endpoint = "dates" THEN [dates |-> results, total |-> a.limit[1]]
                                     ELSE IF a.endpoint = "dynamics" THEN [result |-> results, total |-> Len(results) + 1, start_date |-> PyDatetime(a.start_date[1]), end_date |-> PyDatetime(a.end_date[1])]
                                     ELSE [result |-> results, total |-> a.limit[1]]

\* The response dict the handler builds from the service's result.
Response(a, results) == IF a.endpoint = "dates" THEN [dates |-> results, total |-> Len(results)]
                        ELSE IF a.endpoint = "dynamics" THEN [result |-> results, total |-> Len(results), start_date |-> PyDatetime(a.start_date[1]), end_date |-> PyDatetime(a.end_date[1])]
                        ELSE [result |-> results, total |-> Len(results)]

\* The ttl argument of the handlers' cache.set(cache_key, response): none.
HandlerTtl == <<>>

\* ------------------------------------------------------------- wall clock
\* How far the clock moves in one step, as <<seconds, microseconds>>: half a
\* second, 4 h 11 min, a day; and for the TTL algorithm on its own also 1 us and 1 s.
Deltas == {<<0, 500000>>, <<15060, 0>>}

TtlDeltas == Deltas \cup {<<0, 1>>, <<1, 0>>, <<SecondsPerDay, 0>>}

SettingsSample == {[CACHE_RESET_HOUR |-> 14, CACHE_RESET_MINUTE |-> 11], [CACHE_RESET_HOUR |-> 0, CACHE_RESET_MINUTE |-> 0], [CACHE_RESET_HOUR |-> 23, CACHE_RESET_MINUTE |-> 59]}

DateSample == {<<2025, 1, 1>>, <<2025, 1, 31>>, <<2024, 2, 28>>, <<2024, 2, 29>>, <<2024, 12, 31>>, <<2025, 4, 30>>}

TimeSample == {<<0, 0, 0, 0>>, <<10, 0, 0, 0>>, <<14, 10, 59, 500000>>, <<14, 11, 0, 0>>, <<15, 0, 0, 0>>, <<23, 58, 59, 999999>>, <<23, 59, 0, 0>>, <<23, 59, 59, 999999>>}

TtlStartInstants == {DT(d[1], d[2], d[3], t[1], t[2], t[3], t[4]) : d \in DateSample, t \in TimeSample}

\* Where the clock stands when the service starts: a morning, the last half
\* second before the 14:11 reset, and an afternoon on the last day of a month.
StartInstants == {DT(2025, 1, 1, 10, 0, 0, 0), DT(2025, 1, 1, 14, 10, 59, 500000), DT(2025, 1, 31, 15, 0, 0, 0)}

StartSettings == {[CACHE_RESET_HOUR |-> 14, CACHE_RESET_MINUTE |-> 11]}

\* The trading records: two share a trading_date, one is not at midnight.
Row(id, d, oil, dtype, basis) == [id |-> id, trading_date |-> d, oil_id |-> oil, delivery_type_id |-> dtype, delivery_basis_id |-> basis, volume |-> 10, price |-> 5, total_value |-> 50]

StoreRows == {Row(1, DT(2024, 1, 3, 0, 0, 0, 0), 1, 1, 1), Row(2, DT(2024, 1, 3, 0, 0, 0, 0), 2, 1, 1), Row(3, DT(2024, 1, 2, 12, 30, 0, 0), 1, 2, 1)}

\* The requests clients send while the clock runs and the cache is administered:
\* a dates request, and a results request that selects no record.
Args(e, limit, start, end, oil, dtype, basis) == [endpoint |-> e, limit |-> limit, start_date |-> start, end_date |-> end, oil_id |-> oil, delivery_type_id |-> dtype, delivery_basis_id |-> basis]

ArgsSample == {Args("dates", <<2>>, <<>>, <<>>, <<>>, <<>>, <<>>),
               Args("results", <<5>>, <<>>, <<>>, <<3>>, <<>>, <<>>)}

\* The request whose key and envelope a direct caller of RedisCache uses.
ClientArgs == {Args("dates", <<2>>, <<>>, <<>>, <<>>, <<>>, <<>>)}

\* The ttl override a direct caller of RedisCache.set passes, in seconds.
TtlSample == {<<0>>, <<3600>>}

\* ------------------------------------------------------------------ state
VARIABLES store, redis, written, req, svcLog

vars == <<now, ticks, settings, ttlLog, store, redis, written, req, svcLog>>

\* The number of requests one behaviour serves.
NumRequests == 2

Requests == 1..NumRequests

IdleReq == [pc |-> "idle", args |-> PyNone, cache_key |-> <<>>, cached_data |-> PyNone, results |-> <<>>, status |-> 0, body |-> PyNone, exc |-> "", trace |-> <<>>, sawExpired |-> FALSE]

\* History: the arguments of the set that wrote the entry under k, and its instant.
Note(h, k, value, ttl, n) == [x \in DOMAIN h \cup {k} |-> IF x = k THEN [op |-> "set", at |-> n, value |-> value, param |-> ttl] ELSE h[x]]

\* History: invalidate_key was called on k at n.
NoteInvalidated(h, k, n) == [x \in DOMAIN h \cup {k} |-> IF x = k THEN [op |-> "invalidate_key", at |-> n, value |-> PyNone, param |-> <<>>] ELSE h[x]]

\* Time passes: the clock moves by one of the steps D.
Tick(D) == /\ ticks < MaxTicks
           /\ \E d \in D : now' = Plus(now, d)
           /\ ticks' = ticks + 1
           /\ UNCHANGED <<svcLog, settings, ttlLog, store, redis, written, req>>

Advance == Tick(Deltas)

\* A query handler up to its first await: parameter checks, cache_key,
\* cache.get, and the return of the cached data on a hit.  History: sawExpired
\* records that a miss found the key's entry expired.
CheckAndGet(r, a) == /\ LET k == CacheKey(a)
                            c == CacheGet(redis, k, now)
                            got == [op |-> "get", key |-> k]
                        IN  req' = [req EXCEPT ![r] = IF Refusal(a) # 0
                                                      THEN [@ EXCEPT !.pc = "done", !.args = a, !.status = Refusal(a), !.exc = "HTTPException", !.trace = <<[op |-> "raise"]>>]
                                                      ELSE IF IsHit(c)
                                                      THEN [@ EXCEPT !.pc = "done", !.args = a, !.cache_key = k, !.cached_data = c, !.status = 200, !.body = c, !.trace = <<got, [op |-> "return"]>>]
                                                      ELSE [@ EXCEPT !.pc = "query", !.args = a, !.cache_key = k, !.cached_data = c, !.trace = <<got>>, !.sawExpired = (k \in DOMAIN redis)]]
                     /\ redis' = (IF Refusal(a) # 0 THEN redis ELSE RedisAfterGet(redis, CacheKey(a)))
                     /\ UNCHANGED <<svcLog, now, ticks, settings, ttlLog, store, written>>

HandlerStart(r, a) == /\ req[r].pc = "idle"
                      /\ \A q \in Requests : q < r => req[q].pc # "idle"
                      /\ CheckAndGet(r, a)

\* A query handler up to its first await while Redis cannot be reached: the
\* parameter checks pass, cache.get is called, and the handler goes on from
\* what the call ends with.
HandlerStartOutage(r, a) == /\ req[r].pc = "idle"
                            /\ \A q \in Requests : q < r => req[q].pc # "idle"
                            /\ Refusal(a) = 0
                            /\ LET k == CacheKey(a)
                                   g == GetOutcome(redis, k, now, FALSE)
                                   got == [op |-> "get", key |-> k, exc |-> g.exc]
                               IN  req' = [req EXCEPT ![r] = IF g.exc # ""
                                                             THEN [@ EXCEPT !.pc = "done", !.args = a, !.cache_key = k, !.status = 500, !.exc = g.exc, !.trace = <<got, [op |-> "raise"]>>]
                                                             ELSE IF IsHit(g.value)
                                                             THEN [@ EXCEPT !.pc = "done", !.args = a, !.cache_key = k, !.cached_data = g.value, !.status = 200, !.body = g.value, !.trace = <<got, [op |-> "return"]>>]
                                                             ELSE [@ EXCEPT !.pc = "query", !.args = a, !.cache_key = k, !.cached_data = g.value, !.trace = <<got>>]]
                            /\ UNCHANGED <<svcLog, now, ticks, settings, ttlLog, store, redis, written>>

\* The awaited TradingService call completes.
HandlerQuery(r) == /\ req[r].pc = "query"
                   /\ \E res \in ServiceResults(store, req[r].args) : req' = [req EXCEPT ![r] = [@ EXCEPT !.pc = "respond", !.results = res, !.trace = @ \o <<[op |-> "query"]>>]]
                   /\ store' = StoreAfterQuery(store, req[r].args)
                   /\ UNCHANGED <<svcLog, now, ticks, settings, ttlLog, redis, written>>

\* The awaited TradingService call ends while the database cannot be reached:
\* the handler goes on from what the call ends with.
HandlerQueryOutage(r) == /\ req[r].pc = "query"
                         /\ \E o \in QueryOutcomes(store, req[r].args, FALSE) :
                               req' = [req EXCEPT ![r] = IF o.exc # ""
                                                         THEN [@ EXCEPT !.pc = "done", !.status = 500, !.exc = o.exc, !.trace = @ \o <<[op |-> "query", exc |-> o.exc], [op |-> "raise"]>>]
                                                         ELSE [@ EXCEPT !.pc = "respond", !.results = o.results, !.trace = @ \o <<[op |-> "query", exc |-> o.exc]>>]]
                         /\ UNCHANGED <<svcLog, now, ticks, settings, ttlLog, store, redis, written>>

\* The rest of the handler: the response dict, cache.set, return.  An exception
\* of cache.set ends the request (nothing catches it).
SetAndReturn(r) == /\ LET k == req[r].cache_key
                          response == Response(req[r].args, req[r].results)
                          exc == CacheSetExc(HandlerTtl, now, settings)
                          set == [op |-> "set", key |-> k, param |-> HandlerTtl, exc |-> exc]
                      IN  /\ redis' = CacheSet(redis, k, response, HandlerTtl, now, settings)
                          /\ written' = IF exc = "" THEN Note(written, k, response, HandlerTtl, now) ELSE written
                          /\ req' = [req EXCEPT ![r] = IF exc = ""
                                                        THEN [@ EXCEPT !.pc = "done", !.status = 200, !.body = response, !.trace = @ \o <<set, [op |-> "return"]>>]
                                                        ELSE [@ EXCEPT !.pc = "done", !.status = 500, !.exc = exc, !.trace = @ \o <<set, [op |-> "raise"]>>]]
                   /\ UNCHANGED <<svcLog, now, ticks, settings, ttlLog, store>>

HandlerRespond(r) == /\ req[r].pc = "respond"
                     /\ SetAndReturn(r)

\* POST /api/cache/invalidate
invalidate_cache == /\ redis' = RedisFlushdb(redis)
                    /\ written' = <<>>
                    /\ UNCHANGED <<svcLog, now, ticks, settings, ttlLog, store, req>>

\* A direct call of RedisCache.set(key, value, ttl) with a handler's key and envelope.
ClientSet == /\ \E a \in ClientArgs, ttl \in TtlSample : \E res \in ServiceResults(store, a) :
                   /\ redis' = CacheSet(redis, CacheKey(a), Response(a, res), ttl, now, settings)
                   /\ written' = IF CacheSetExc(ttl, now, settings) = "" THEN Note(written, CacheKey(a), Response(a, res), ttl, now) ELSE written
             /\ UNCHANGED <<svcLog, now, ticks, settings, ttlLog, store, req>>

\* A direct call of RedisCache.invalidate_key(key).  History: the call is noted
\* under the key in place of the set it undoes.
ClientInvalidateKey == /\ \E a \in ClientArgs :
                             /\ redis' = RedisDelete(redis, CacheKey(a))
                             /\ written' = NoteInvalidated(written, CacheKey(a), now)
                       /\ UNCHANGED <<svcLog, now, ticks, settings, ttlLog, store, req>>

Init == /\ now \in StartInstants
        /\ settings \in StartSettings
        /\ ticks = 0
        /\ ttlLog = <<>>
        /\ svcLog = <<>>
        /\ store = StoreRows
        /\ redis = <<>>
        /\ written = <<>>
        /\ req = [r \in Requests |-> IdleReq]

Next == \/ Advance
        \/ \E r \in Requests, a \in ArgsSample : HandlerStart(r, a)
        \/ \E r \in Requests : HandlerQuery(r)
        \/ \E r \in Requests : HandlerRespond(r)
        \/ invalidate_cache
        \/ ClientSet
        \/ ClientInvalidateKey

Spec == Init /\ [][Next]_vars

\* ------------------------------------------- the TTL algorithm on its own
\* One call of _get_ttl at the current instant; the last two calls are kept.
CallGetTtl == /\ ttlLog' = (IF Len(ttlLog) < 2 THEN ttlLog ELSE Tail(ttlLog)) \o <<[at |-> now, res |-> _get_ttl(now, settings)]>>
              /\ (IF ttlLog = <<>> THEN TRUE ELSE ttlLog[Len(ttlLog)].at # now)
              /\ UNCHANGED <<svcLog, now, ticks, settings, store, redis, written, req>>

TtlInit == /\ now \in TtlStartInstants
           /\ settings \in SettingsSample
           /\ ticks = 0
           /\ ttlLog = <<>>
           /\ svcLog = <<>>
           /\ store = StoreRows
           /\ redis = <<>>
           /\ written = <<>>
           /\ req = [r \in Requests |-> IdleReq]

TtlAdvance == Tick(TtlDeltas)

TtlNext == CallGetTtl \/ TtlAdvance

TtlSpec == TtlInit /\ [][TtlNext]_vars

\* ------------------------------------------- the handlers' parameter checks
\* Requests over the edges of the checks: limits around 1..100 and 1..1000,
\* filters set and unset, periods of 1 day, 0 days, 365 days, 365 days 12 h and
\* 366 days, a period that ends before it starts, and a filter no record matches.
RequestSample == {Args("dates", <<l>>, <<>>, <<>>, <<>>, <<>>, <<>>) : l \in {0, 1, 100, 101}}
                 \cup {Args("results", <<l>>, <<>>, <<>>, <<>>, <<>>, <<>>) : l \in {0, 5, 1000, 1001}}
                 \cup {Args("results", <<5>>, <<>>, <<>>, <<1>>, <<>>, <<>>), Args("results", <<5>>, <<>>, <<>>, <<>>, <<1>>, <<>>), Args("results", <<5>>, <<>>, <<>>, <<3>>, <<>>, <<>>)}
                 \cup {Args("dynamics", <<>>, <<p[1]>>, <<p[2]>>, <<>>, <<>>, <<>>) : p \in {<<DT(2024, 1, 2, 0, 0, 0, 0), DT(2024, 1, 3, 0, 0, 0, 0)>>,
                                                                                           <<DT(2024, 1, 3, 0, 0, 0, 0), DT(2024, 1, 3, 0, 0, 0, 0)>>,
                                                                                           <<DT(2024, 1, 3, 12, 0, 0, 0), DT(2024, 1, 3, 0, 0, 0, 0)>>,
                                                                                           <<DT(2023, 1, 3, 0, 0, 0, 0), DT(2024, 1, 3, 0, 0, 0, 0)>>,
                                                                                           <<DT(2023, 1, 3, 0, 0, 0, 0), DT(2024, 1, 3, 12, 0, 0, 0)>>,
                                                                                           <<DT(2023, 1, 2, 0, 0, 0, 0), DT(2024, 1, 3, 0, 0, 0, 0)>>}}

RequestStartInstants == {DT(2025, 1, 1, 10, 0, 0, 0)}

RequestInit == /\ now \in RequestStartInstants
               /\ settings \in StartSettings
               /\ ticks = 0
               /\ ttlLog = <<>>
               /\ svcLog = <<>>
               /\ store = StoreRows
               /\ redis = <<>>
               /\ written = <<>>
               /\ req = [r \in Requests |-> IdleReq]

RequestNext == \/ \E r \in Requests, a \in RequestSample : HandlerStart(r, a)
               \/ \E r \in Requests, a \in ArgsSample : HandlerStartOutage(r, a)
               \/ \E r \in Requests : HandlerQuery(r)
               \/ \E r \in Requests : HandlerQueryOutage(r)
               \/ \E r \in Requests : HandlerRespond(r)

RequestSpec == RequestInit /\ [][RequestNext]_vars

\* ---------------------------------------------- the query service on its own
\* Store states: no record; the three records above; one record a day for
\* 2024-01-01..2024-01-10 with alternating oil_id; the three records and a
\* fourth on the day of the third at another time of day.
DayRows == {Row(d, DT(2024, 1, d, 0, 0, 0, 0), 1 + (d % 2), 1, 1) : d \in 1..10}

SameDayRows == StoreRows \cup {Row(4, DT(2024, 1, 2, 0, 0, 0, 0), 2, 2, 2)}

StoreSample == {{}, StoreRows, DayRows, SameDayRows}

\* The calls: limits below, at and above the number of dates and records;
\* periods that end on a record's instant, hold no record, or are a single
\* instant; filters unset, single, combined, and matching nothing.
ServicePeriods == {<<DT(2024, 1, 3, 0, 0, 0, 0), DT(2024, 1, 7, 0, 0, 0, 0)>>,
                   <<DT(2024, 1, 1, 0, 0, 0, 0), DT(2024, 1, 2, 0, 0, 0, 0)>>,
                   <<DT(2024, 1, 2, 0, 0, 0, 0), DT(2024, 1, 3, 0, 0, 0, 0)>>,
                   <<DT(2025, 1, 1, 0, 0, 0, 0), DT(2025, 1, 2, 0, 0, 0, 0)>>}

ServiceArgs == {Args("dates", <<l>>, <<>>, <<>>, <<>>, <<>>, <<>>) : l \in {1, 2, 10}}
               \cup {Args("dynamics", <<>>, <<p[1]>>, <<p[2]>>, <<>>, <<>>, <<>>) : p \in ServicePeriods}
               \cup {Args("dynamics", <<>>, <<DT(2024, 1, 2, 0, 0, 0, 0)>>, <<DT(2024, 1, 3, 0, 0, 0, 0)>>, <<1>>, f, <<>>) : f \in {<<>>, <<1>>}}
               \cup {Args("results", <<l>>, <<>>, <<>>, <<>>, <<>>, <<>>) : l \in {1, 5}}
               \cup {Args("results", <<5>>, <<>>, <<>>, <<1>>, <<1>>, <<>>), Args("results", <<2>>, <<>>, <<>>, <<>>, <<2>>, <<>>), Args("results", <<5>>, <<>>, <<>>, <<3>>, <<>>, <<>>)}

\* One call of a TradingService method; the last two calls are kept.
CallService == /\ \E a \in ServiceArgs : \E res \in ServiceResults(store, a) :
                     /\ svcLog' = (IF Len(svcLog) < 2 THEN svcLog ELSE Tail(svcLog)) \o <<[args |-> a, result |-> res]>>
                     /\ store' = StoreAfterQuery(store, a)
               /\ UNCHANGED <<now, ticks, settings, ttlLog, redis, written, req>>

ServiceInit == /\ now \in RequestStartInstants
               /\ settings \in StartSettings
               /\ ticks = 0
               /\ ttlLog = <<>>
               /\ svcLog = <<>>
               /\ store \in StoreSample
               /\ redis = <<>>
               /\ written = <<>>
               /\ req = [r \in Requests |-> IdleReq]

ServiceNext == CallService

ServiceSpec == ServiceInit /\ [][ServiceNext]_vars

\* ------------------------------------------------ the event loop's thread
\* The handlers are coroutines of one event loop, which runs one of them at a
\* time on a single thread, from one await to the next.  cache.get and
\* cache.set are plain calls (no await) of the blocking redis.Redis client: from
\* the moment the command is sent until the reply is read the thread stays
\* inside the call, and the loop runs no other coroutine.  The only await of a
\* handler is the TradingService call.
\*
\* The thread is inside a cache call of some request.
Blocked == \E q \in Requests : req[q].pc \in {"cache.get", "cache.set"}

\* The accepted requests of RequestSample.
LoopArgs == {a \in RequestSample : Refusal(a) = 0}

\* The loop starts the handler of a new request: the parameter checks pass, and
\* cache.get sends GET and waits for the reply.
LoopGetSend(r, a) == /\ ~Blocked
                     /\ req[r].pc = "idle"
                     /\ \A q \in Requests : q < r => req[q].pc # "idle"
                     /\ Refusal(a) = 0
                     /\ req' = [req EXCEPT ![r] = [@ EXCEPT !.pc = "cache.get", !.args = a, !.cache_key = CacheKey(a)]]
                     /\ UNCHANGED <<svcLog, now, ticks, settings, ttlLog, store, redis, written>>

\* The reply to GET arrives: the handler returns the cached data, or goes on to
\* the service call and is suspended at its await.
LoopGetReply(r) == /\ req[r].pc = "cache.get"
                   /\ CheckAndGet(r, req[r].args)

\* The loop resumes a handler whose awaited service call has completed: the
\* response dict is built, and cache.set sends SETEX and waits for the reply.
LoopQueryResume(r) == /\ ~Blocked
                      /\ req[r].pc = "query"
                      /\ \E res \in ServiceResults(store, req[r].args) : req' = [req EXCEPT ![r] = [@ EXCEPT !.pc = "cache.set", !.results = res, !.trace = @ \o <<[op |-> "query"]>>]]
                      /\ store' = StoreAfterQuery(store, req[r].args)
                      /\ UNCHANGED <<svcLog, now, ticks, settings, ttlLog, redis, written>>

\* The reply to SETEX arrives: the handler returns the response.
LoopSetReply(r) == /\ req[r].pc = "cache.set"
                   /\ SetAndReturn(r)

LoopNext == \/ \E r \in Requests, a \in LoopArgs : LoopGetSend(r, a)
            \/ \E r \in Requests : LoopGetReply(r)
            \/ \E r \in Requests : LoopQueryResume(r)
            \/ \E r \in Requests : LoopSetReply(r)

LoopSpec == RequestInit /\ [][LoopNext]_vars

\* ------------------------------------- configuration and set on their own
\* A variable of the process environment (or of .env): unset, the decimal text
\* of an integer, or text that is no integer.
EnvUnset == [env |-> "unset"]

EnvInt(n) == [env |-> "int", n |-> n]

EnvText == [env |-> "text"]

\* pydantic's validation of a field declared `int`: the default when the
\* variable is unset, the integer its text denotes, ValidationError otherwise.
\* The declaration carries no ge/le constraint.
IntField(v, default) == IF v.env = "unset" THEN [exc |-> "", value |-> default]
                        ELSE IF v.env = "int" THEN [exc |-> "", value |-> v.n]
                        ELSE [exc |-> "ValidationError", value |-> default]

\* settings = Settings(), run when app.config is imported at process start.
Settings(environ) == LET h == IntField(environ.CACHE_RESET_HOUR, 14)
                         m == IntField(environ.CACHE_RESET_MINUTE, 11)
                     IN  IF h.exc # "" THEN [exc |-> h.exc, settings |-> PyNone]
                         ELSE IF m.exc # "" THEN [exc |-> m.exc, settings |-> PyNone]
                         ELSE [exc |-> "", settings |-> [CACHE_RESET_HOUR |-> h.value, CACHE_RESET_MINUTE |-> m.value]]

\* Environments: the reset time unset, at the edges of 0..23 and 0..59, one
\* past each edge, and not a number.
EnvironSample == {[CACHE_RESET_HOUR |-> h, CACHE_RESET_MINUTE |-> m] : h \in {EnvUnset, EnvInt(0), EnvInt(23), EnvInt(24), EnvInt(-1), EnvText},
                                                                        m \in {EnvUnset, EnvInt(59), EnvInt(60), EnvText}}

\* The settings of the processes that start: an environment Settings() rejects
\* ends the import of app.config, and no request is ever served.
LoadedSettings == {Settings(e).settings : e \in {x \in EnvironSample : Settings(x).exc = ""}}

\* One call of RedisCache.set(key, value) with no ttl, as the handlers make it.
\* The call is logged: its instant, the value _get_ttl gave, the expiry passed
\* to setex, the exception set ended with, and the database before the call.
CallSet == /\ \E a \in ClientArgs : \E res \in ServiceResults(store, a) :
                 /\ redis' = CacheSet(redis, CacheKey(a), Response(a, res), HandlerTtl, now, settings)
                 /\ written' = IF CacheSetExc(HandlerTtl, now, settings) = "" THEN Note(written, CacheKey(a), Response(a, res), HandlerTtl, now) ELSE written
                 /\ ttlLog' = <<[at |-> now, res |-> SetTtl(HandlerTtl, now, settings), setex |-> SetexTtl(HandlerTtl, now, settings),
                                 exc |-> CacheSetExc(HandlerTtl, now, settings), before |-> redis]>>
           /\ UNCHANGED <<svcLog, now, ticks, settings, store, req>>

SetInit == /\ now \in StartInstants
           /\ settings \in LoadedSettings
           /\ ticks = 0
           /\ ttlLog = <<>>
           /\ svcLog = <<>>
           /\ store = StoreRows
           /\ redis = <<>>
           /\ written = <<>>
           /\ req = [r \in Requests |-> IdleReq]

SetNext == CallSet \/ Advance

SetSpec == SetInit /\ [][SetNext]_vars

\* ------------------------------------------------- the reset-time contract
\* Today's reset instant: date(n) at reset_hour:reset_minute:00.000.
ResetOn(n, cfg) == DT(n.year, n.month, n.day, cfg.CACHE_RESET_HOUR, cfg.CACHE_RESET_MINUTE, 0, 0)

\* The first reset instant strictly after n (n at the reset instant counts as past it).
NextResetInstant(n, cfg) == IF Before(n, ResetOn(n, cfg)) THEN ResetOn(n, cfg) ELSE NextDay(ResetOn(n, cfg))

\* Whole seconds from n to a later instant t that has no microseconds.
SecondsUntil(n, t) == (ToOrdinal(t) - ToOrdinal(n)) * SecondsPerDay + SecondOfDay(t) - SecondOfDay(n) - (IF n.microsecond > 0 THEN 1 ELSE 0)

ExpectedTtl(n, cfg) == SecondsUntil(n, NextResetInstant(n, cfg))

LastDayOfMonth(n) == n.day = DaysInMonth(n.year, n.month)

\* C1: every TTL that _get_ttl returns is strictly positive and at most 24 h
\* (86400 s).  Violated: in the last second before the reset it returns 0.
C1_TtlPositiveAtMostDay == \A i \in DOMAIN ttlLog : ttlLog[i].res.exc = "" => (ttlLog[i].res.ttl > 0 /\ ttlLog[i].res.ttl <= SecondsPerDay)

\* C2: every call of _get_ttl returns the whole seconds from now to the next
\* reset instant.  Violated: at or past the reset time on the last day of a
\* month the call raises ValueError instead of returning.
C2_TtlIsSecondsToNextReset == \A i \in DOMAIN ttlLog : ttlLog[i].res = Returned(ExpectedTtl(ttlLog[i].at, settings))

\* C3: a call of _get_ttl at exactly the reset instant returns 86400.
\* Violated on the last day of a month.
C3_AtResetInstantFullDay == \A i \in DOMAIN ttlLog : ttlLog[i].at = ResetOn(ttlLog[i].at, settings) => ttlLog[i].res = Returned(SecondsPerDay)

\* C4: at or past the reset time on the last day of a month, _get_ttl returns
\* without error the seconds until the reset time on the first day of the next month.
C4_MonthEndRollsOver == \A i \in DOMAIN ttlLog : (LastDayOfMonth(ttlLog[i].at) /\ ~Before(ttlLog[i].at, ResetOn(ttlLog[i].at, settings))) => (ttlLog[i].res.exc = "" /\ ttlLog[i].res.ttl = SecondsUntil(ttlLog[i].at, NextDay(ResetOn(ttlLog[i].at, settings))))

\* C5: two successive calls between the same pair of reset instants both return
\* and the later TTL is not larger; a call less than a second after a reset
\* instant returns at least 86399.
C5_MonotoneThenJump == /\ (Len(ttlLog) = 2 /\ NextResetInstant(ttlLog[1].at, settings) = NextResetInstant(ttlLog[2].at, settings)) => (ttlLog[1].res.exc = "" /\ ttlLog[2].res.exc = "" /\ ttlLog[1].res.ttl >= ttlLog[2].res.ttl)
                       /\ \A i \in DOMAIN ttlLog : (~Before(ttlLog[i].at, ResetOn(ttlLog[i].at, settings)) /\ Before(ttlLog[i].at, Plus(ResetOn(ttlLog[i].at, settings), <<1, 0>>))) => (ttlLog[i].res.exc = "" /\ ttlLog[i].res.ttl >= SecondsPerDay - 1)

C8_RoundTrip == \A r \in Requests : (req[r].cached_data # PyNone /\ CacheGet(redis, req[r].cache_key, now) = req[r].cached_data) => req[r].cached_data = written[req[r].cache_key].value

C10_MissQueriesSetsReturns == \A r \in Requests : (req[r].pc = "done" /\ Len(req[r].trace) >= 2 /\ req[r].trace[2] = [op |-> "query"]) => /\ req[r].status = 200
                                                                                                   /\ req[r].trace = <<[op |-> "get", key |-> req[r].cache_key], [op |-> "query"], [op |-> "set", key |-> req[r].cache_key, param |-> <<>>, exc |-> ""], [op |-> "return"]>>

\* C11: a request whose cache.set failed after its store query still ends as a
\* success (200) carrying the response built from the query result.  Violated:
\* nothing in the handler catches the exception of cache.set.
C11_SetFailureStillReturns == \A r \in Requests : (req[r].pc = "done" /\ \E i \in DOMAIN req[r].trace : req[r].trace[i].op = "set" /\ req[r].trace[i].exc # "") => (req[r].status = 200 /\ req[r].body = Response(req[r].args, req[r].results))

\* C12: two requests that both missed the cache on the same key both end as a
\* success carrying the response built from their own store query, and a
\* default-TTL entry the cache then holds under the key is the whole envelope of
\* one of them, the one whose set ran last.  Violated: when cache.set raises,
\* neither request succeeds.
C12_ConcurrentMissesBothSucceed == \A r1, r2 \in Requests : (/\ r1 # r2
                                                             /\ req[r1].pc = "done" /\ req[r2].pc = "done"
                                                             /\ req[r1].cache_key = req[r2].cache_key
                                                             /\ Len(req[r1].trace) >= 2 /\ req[r1].trace[2] = [op |-> "query"]
                                                             /\ Len(req[r2].trace) >= 2 /\ req[r2].trace[2] = [op |-> "query"])
                                                            => /\ req[r1].status = 200 /\ req[r2].status = 200
                                                               /\ req[r1].body = Response(req[r1].args, req[r1].results)
                                                               /\ req[r2].body = Response(req[r2].args, req[r2].results)
                                                               /\ (req[r1].cache_key \in DOMAIN redis /\ written[req[r1].cache_key].param = <<>>) => /\ redis[req[r1].cache_key].data \in {Dumps(req[r1].body), Dumps(req[r2].body)}
                                                                                                                                                     /\ redis[req[r1].cache_key].data = Dumps(written[req[r1].cache_key].value)

\* ------------------------------------------------- the parameter checks
\* The request r was refused with the given status before the handler did
\* anything: no cache key, no cache get, no store query, no cache set.
RefusedUntouched(r, status) == /\ req[r].pc = "done"
                               /\ req[r].status = status
                               /\ req[r].cache_key = <<>>
                               /\ req[r].trace = <<[op |-> "raise"]>>

\* end_date - start_date is longer than 365 days.
ExceedsYear(a) == \/ ToOrdinal(a.end_date[1]) - ToOrdinal(a.start_date[1]) > 365
                  \/ /\ ToOrdinal(a.end_date[1]) - ToOrdinal(a.start_date[1]) = 365
                     /\ TimeOf(a.end_date[1]) # TimeOf(a.start_date[1])
                     /\ TimeGE(TimeOf(a.end_date[1]), TimeOf(a.start_date[1]))

\* The limits an endpoint accepts.
LimitRange(e) == IF e = "dates" THEN 1..100 ELSE 1..1000

\* C13: every dynamics request with start_date > end_date is refused with 400
\* before any cache get, store query or cache set.
C13_StartAfterEndRefused == \A r \in Requests : (req[r].pc # "idle" /\ req[r].args.endpoint = "dynamics" /\ Before(req[r].args.end_date[1], req[r].args.start_date[1])) => RefusedUntouched(r, 400)

\* A dynamics request whose period ends before it starts was handled.
C13_Witness == \E r \in Requests : req[r].pc = "done" /\ req[r].args.endpoint = "dynamics" /\ Before(req[r].args.end_date[1], req[r].args.start_date[1])

\* C14: every dynamics request whose period is longer than 365 days, be it by
\* less than a day, is refused with 400 before any cache or store access.
\* Violated: a period of 365 days and 12 hours is accepted.
C14_LongPeriodRefused == \A r \in Requests : (req[r].pc # "idle" /\ req[r].args.endpoint = "dynamics" /\ ExceedsYear(req[r].args)) => RefusedUntouched(r, 400)

\* C15: every dates or results request whose limit is outside the endpoint's
\* range is refused before cache and store are touched, and every store query
\* of these endpoints runs with a positive limit.
C15_LimitOutOfRangeRefused == \A r \in Requests : (req[r].pc # "idle" /\ req[r].args.endpoint \in {"dates", "results"}) => /\ (req[r].args.limit[1] \notin LimitRange(req[r].args.endpoint) => RefusedUntouched(r, 422))
                                                                                                                        /\ (req[r].pc \in {"query", "respond"} => req[r].args.limit[1] > 0)
                                                                                                                        /\ ((\E i \in DOMAIN req[r].trace : req[r].trace[i].op = "query") => req[r].args.limit[1] > 0)

\* A request with limit 0 and one with a limit above the range were handled.
C15_Witness == \E r1, r2 \in Requests : /\ req[r1].pc = "done" /\ req[r1].args.endpoint \in {"dates", "results"} /\ req[r1].args.limit[1] = 0
                                        /\ req[r2].pc = "done" /\ req[r2].args.endpoint \in {"dates", "results"} /\ req[r2].args.limit[1] > 100 /\ req[r2].args.limit[1] \notin LimitRange(req[r2].args.endpoint)

SampleKeys == {CacheKey(a) : a \in ArgsSample}

\* C17: after invalidate_all, get finds no entry under any key; an absent key
\* stays absent until a set; invalidate_all can always be called, and flushing
\* a flushed cache leaves it empty.
C17_InvalidateAllEmpties == /\ [](ENABLED invalidate_cache /\ RedisFlushdb(redis) = <<>> /\ RedisFlushdb(RedisFlushdb(redis)) = <<>>)
                            /\ [][invalidate_cache => \A k \in DOMAIN redis \cup SampleKeys : CacheGet(redis', k, now') = PyNone]_vars
                            /\ [][\A k \in SampleKeys : (CacheGet(redis, k, now) = PyNone /\ CacheGet(redis', k, now') # PyNone) => (ClientSet \/ \E r \in Requests : HandlerRespond(r))]_vars

\* The cache is empty although a results request stored its response: only
\* invalidate_all removes that entry.
C17_Witness == /\ redis = <<>>
               /\ \E r \in Requests : /\ req[r].pc = "done" /\ req[r].args.endpoint = "results" /\ req[r].status = 200
                                      /\ req[r].trace[Len(req[r].trace) - 1] = [op |-> "set", key |-> req[r].cache_key, param |-> <<>>, exc |-> ""]

\* C18: invalidate_key(k) leaves no entry under k and every other entry as it
\* was, and when k holds no entry it changes nothing and can still be called.
C18_InvalidateKeyRemovesOnlyKey == /\ [](ENABLED ClientInvalidateKey)
                                   /\ [][ClientInvalidateKey => \A a \in ClientArgs : /\ CacheGet(redis', CacheKey(a), now') = PyNone
                                                                                     /\ CacheKey(a) \notin DOMAIN redis'
                                                                                     /\ DOMAIN redis' = DOMAIN redis \ {CacheKey(a)}
                                                                                     /\ \A k \in DOMAIN redis' : redis'[k] = redis[k]
                                                                                     /\ (CacheKey(a) \notin DOMAIN redis => redis' = redis)]_vars

\* invalidate_key removed the entry of its key and the cache still holds another entry.
C18_Witness == \E k \in DOMAIN written : /\ written[k].op = "invalidate_key"
                                        /\ k \notin DOMAIN redis
                                        /\ DOMAIN redis # {}
                                        /\ \E r \in Requests : req[r].pc = "done" /\ req[r].cache_key = k /\ req[r].status = 200 /\ req[r].cached_data = PyNone

\* --------------------------------------------------------- set and get
\* C19: get returns, under every key that holds a live entry, the value of the
\* most recent set on that key.  Violated: the value comes back with its
\* datetimes and records turned into strings.
C19_GetReturnsLastSet == \A k \in DOMAIN redis : Alive(redis, k, now) => CacheGet(redis, k, now) = written[k].value

\* C20: a handler's cache.get leaves every entry, the one it reads included,
\* with its value and expiry, and returns None when the key holds no entry.
C20_GetHasNoSideEffects == [][\A r \in Requests : (req[r].pc = "idle" /\ req'[r].pc # "idle" /\ req'[r].cache_key # <<>>) => /\ redis' = redis
                                                                                                                          /\ \A k \in DOMAIN redis : CacheGet(redis', k, now') = CacheGet(redis, k, now)
                                                                                                                          /\ (req'[r].cache_key \notin DOMAIN redis => req'[r].cached_data = PyNone)]_vars

\* One request read an entry that is still in the cache, another found none under its key.
C20_Witness == \E r1, r2 \in Requests : /\ req[r1].cached_data # PyNone /\ CacheGet(redis, req[r1].cache_key, now) = req[r1].cached_data
                                        /\ req[r2].pc = "query" /\ req[r2].cache_key \notin DOMAIN redis

\* ------------------------------------------------------ the query service
\* The calls of one method in the log, and the records a call returned.
CallsOf(e) == {i \in DOMAIN svcLog : svcLog[i].args.endpoint = e}

RecordCalls == CallsOf("dynamics") \cup CallsOf("results")

RowsOf(i) == {svcLog[i].result[j].row : j \in DOMAIN svcLog[i].result}

\* start_date <= trading_date <= end_date
InPeriod(row, a) == ~Before(row.trading_date, a.start_date[1]) /\ ~Before(a.end_date[1], row.trading_date)

\* The record has the value of every filter the call supplies.
SatisfiesFilters(row, a) == \A f \in {"oil_id", "delivery_type_id", "delivery_basis_id"} : a[f] = <<>> \/ row[f] = a[f][1]

\* C21: get_dynamics returns no record dated before start_date or after end_date.
C21_DynamicsInsidePeriod == \A i \in CallsOf("dynamics") : \A row \in RowsOf(i) : InPeriod(row, svcLog[i].args)

\* A call returned a record dated exactly end_date while the store holds a later record of that day.
C21_Witness == \E i \in CallsOf("dynamics") : /\ \E row \in RowsOf(i) : row.trading_date = svcLog[i].args.end_date[1]
                                              /\ \E row \in store : ToOrdinal(row.trading_date) = ToOrdinal(svcLog[i].args.end_date[1]) /\ Before(svcLog[i].args.end_date[1], row.trading_date)

\* C22: get_dynamics returns every stored record of the period that has the
\* supplied filters' values, each once, however many they are; with one record a
\* day for 2024-01-01..2024-01-10, the period 2024-01-03..2024-01-07 gives 5 records.
C22_DynamicsComplete == \A i \in CallsOf("dynamics") : /\ RowsOf(i) = {row \in store : InPeriod(row, svcLog[i].args) /\ SatisfiesFilters(row, svcLog[i].args)}
                                                       /\ Len(svcLog[i].result) = Cardinality(RowsOf(i))
                                                       /\ (store = DayRows /\ svcLog[i].args.start_date = <<DT(2024, 1, 3, 0, 0, 0, 0)>> /\ svcLog[i].args.end_date = <<DT(2024, 1, 7, 0, 0, 0, 0)>>) => Len(svcLog[i].result) = 5

\* The call of the example was made on the ten-day store.
C22_Witness == \E i \in CallsOf("dynamics") : store = DayRows /\ svcLog[i].args.start_date = <<DT(2024, 1, 3, 0, 0, 0, 0)>> /\ svcLog[i].args.end_date = <<DT(2024, 1, 7, 0, 0, 0, 0)>> /\ Len(svcLog[i].result) = 5

\* C23: every record get_dynamics and get_trading_result return has the value of
\* every supplied filter, and a call without any filter is restricted by none:
\* it returns as many records as the period, or the limit, allows.
C23_FiltersConjunctive == \A i \in RecordCalls : /\ \A row \in RowsOf(i) : SatisfiesFilters(row, svcLog[i].args)
                                                 /\ (svcLog[i].args.endpoint = "dynamics" /\ svcLog[i].args.oil_id = <<>> /\ svcLog[i].args.delivery_type_id = <<>> /\ svcLog[i].args.delivery_basis_id = <<>>) => RowsOf(i) = {row \in store : InPeriod(row, svcLog[i].args)}
                                                 /\ (svcLog[i].args.endpoint = "results" /\ svcLog[i].args.oil_id = <<>> /\ svcLog[i].args.delivery_type_id = <<>> /\ svcLog[i].args.delivery_basis_id = <<>>) => Len(svcLog[i].result) = Min(svcLog[i].args.limit[1], Cardinality(store))

\* A call with two filters returned a record while the store holds records that have only one of the two values.
C23_Witness == \E i \in RecordCalls : /\ svcLog[i].args.oil_id # <<>> /\ svcLog[i].args.delivery_type_id # <<>>
                                      /\ RowsOf(i) # {}
                                      /\ \E r1, r2 \in store : /\ r1.oil_id = svcLog[i].args.oil_id[1] /\ r1.delivery_type_id # svcLog[i].args.delivery_type_id[1]
                                                               /\ r2.oil_id # svcLog[i].args.oil_id[1] /\ r2.delivery_type_id = svcLog[i].args.delivery_type_id[1]

\* C24: get_last_trading_dates returns at most limit values, each strictly later than the next.
C24_DatesBoundedStrictlyDescending == \A i \in CallsOf("dates") : /\ Len(svcLog[i].result) <= svcLog[i].args.limit[1]
                                                                  /\ \A j \in 1..(Len(svcLog[i].result) - 1) : Before(svcLog[i].result[j + 1].dt, svcLog[i].result[j].dt)

\* A call returned limit values, two or more, from a store where records share a trading_date.
C24_Witness == \E i \in CallsOf("dates") : /\ Len(svcLog[i].result) = svcLog[i].args.limit[1] /\ Len(svcLog[i].result) >= 2
                                           /\ \E r1, r2 \in store : r1 # r2 /\ r1.trading_date = r2.trading_date

\* C25: no two values get_last_trading_dates returns fall on the same calendar
\* day.  Violated: DISTINCT compares whole datetimes, so two records of one day
\* at different times of day give two values.
C25_DatesDistinctByDay == \A i \in CallsOf("dates") : \A j, k \in DOMAIN svcLog[i].result : j # k => ToOrdinal(svcLog[i].result[j].dt) # ToOrdinal(svcLog[i].result[k].dt)

\* The stored records that have the value of every filter the call supplies.
MatchingRows(a) == {row \in store : SatisfiesFilters(row, a)}

\* C26: get_trading_result returns min(limit, number of matching records)
\* records, all matching, each once, and no matching record it leaves out is
\* later than one it returns.
C26_ResultsMostRecentMatching == \A i \in CallsOf("results") : /\ Len(svcLog[i].result) = Min(svcLog[i].args.limit[1], Cardinality(MatchingRows(svcLog[i].args)))
                                                              /\ Cardinality(RowsOf(i)) = Len(svcLog[i].result)
                                                              /\ RowsOf(i) \subseteq MatchingRows(svcLog[i].args)
                                                              /\ \A out \in MatchingRows(svcLog[i].args) \ RowsOf(i) : \A row \in RowsOf(i) : ~Before(row.trading_date, out.trading_date)

\* A filtered call returned a record although limit later records of the store do not match.
C26_Witness == \E i \in CallsOf("results") : /\ RowsOf(i) # {}
                                             /\ \E row \in RowsOf(i) : Cardinality({x \in store \ MatchingRows(svcLog[i].args) : Before(row.trading_date, x.trading_date)}) >= svcLog[i].args.limit[1]

\* C27: in every sequence get_dynamics and get_trading_result return, no record
\* is followed by one of a later trading_date.
C27_RecordsDescending == \A i \in RecordCalls : \A j \in 1..(Len(svcLog[i].result) - 1) : ~Before(svcLog[i].result[j].row.trading_date, svcLog[i].result[j + 1].row.trading_date)

\* A call returned records of different trading_dates.
C27_Witness == \E i \in RecordCalls : \E j \in 1..(Len(svcLog[i].result) - 1) : Before(svcLog[i].result[j + 1].row.trading_date, svcLog[i].result[j].row.trading_date)

\* C28: two executions of one get_dynamics or get_trading_result call on the
\* same store return the same sequence.  Violated: nothing orders records of
\* equal trading_date, so their order, and which of them LIMIT keeps, may differ.
C28_TieBreakDeterministic == (Len(svcLog) = 2 /\ svcLog[1].args = svcLog[2].args /\ svcLog[1].args.endpoint \in {"dynamics", "results"}) => svcLog[1].result = svcLog[2].result

\* ------------------------------------------------- empty results, outages
\* No stored record is in the request's period (dynamics) and has its filters' values.
NothingMatches(a) == \A row \in store : ~(SatisfiesFilters(row, a) /\ (a.endpoint = "dynamics" => InPeriod(row, a)))

\* C29: when no stored record matches a dynamics or results request, the store
\* query returns the empty sequence and the request ends as a success whose
\* envelope has an empty result and total 0.  Violated: when cache.set raises,
\* the request ends with the exception.
C29_NoMatchIsEmptySuccess == \A r \in Requests : (/\ req[r].pc \in {"respond", "done"}
                                                  /\ req[r].cached_data = PyNone
                                                  /\ req[r].cache_key # <<>>
                                                  /\ req[r].args.endpoint \in {"dynamics", "results"}
                                                  /\ NothingMatches(req[r].args))
                                                 => /\ req[r].results = <<>>
                                                    /\ req[r].pc = "done" => (req[r].status = 200 /\ req[r].body.result = <<>> /\ req[r].body.total = 0)

\* C30: a request whose cache.get could not reach Redis ends with that error as
\* a server fault (500); the handler got no value from get, ran no store query
\* and no cache.set.
C30_GetOutageIsServerFault == \A r \in Requests : (req[r].trace # <<>> /\ req[r].trace[1].op = "get" /\ "exc" \in DOMAIN req[r].trace[1])
                                                  => /\ req[r].pc = "done"
                                                     /\ req[r].status = 500
                                                     /\ req[r].exc = "ConnectionError"
                                                     /\ req[r].cached_data = PyNone /\ req[r].results = <<>> /\ req[r].body = PyNone
                                                     /\ req[r].trace = <<[op |-> "get", key |-> req[r].cache_key, exc |-> "ConnectionError"], [op |-> "raise"]>>

\* A request's cache.get met the outage.
C30_Witness == \E r \in Requests : req[r].pc = "done" /\ req[r].exc = "ConnectionError" /\ req[r].trace[1].op = "get"

\* Whether the reset time of cfg is a time of day.
ResetTimeInRange(cfg) == cfg.CACHE_RESET_HOUR \in 0..23 /\ cfg.CACHE_RESET_MINUTE \in 0..59

\* C31: a set without a ttl override never passes a non-positive expiry to the
\* backend: when the reset-time computation gives a TTL <= 0, set ends with an
\* error before calling the backend, and the database is left as it was.
C31_NonPositiveTtlNeverReachesBackend == \A i \in DOMAIN ttlLog : (ttlLog[i].res.exc = "" /\ ttlLog[i].res.ttl <= 0) => /\ ttlLog[i].setex = <<>>
                                                                                                                       /\ ttlLog[i].exc # ""
                                                                                                                       /\ redis = ttlLog[i].before

\* C32: a reset hour outside 0..23 or a reset minute outside 0..59 is rejected
\* when the configuration is loaded, so every set and TTL computation runs
\* with a reset time in range.
C32_ResetTimeValidatedAtStartup == \A i \in DOMAIN ttlLog : ResetTimeInRange(settings)

\* C33: no step of a handler or of the query service changes the Record Store:
\* the set of stored trading records is the same before and after every step.
C33_StoreNeverMutated == [][store' = store]_vars

\* A request went through cache.get, the store query and cache.set, and the
\* store still holds the records it started with.
C33_Witness == \E r \in Requests : /\ req[r].pc = "done"
                                    /\ req[r].status = 200
                                    /\ (\E i \in DOMAIN req[r].trace : req[r].trace[i].op = "query")
                                    /\ (\E j \in DOMAIN req[r].trace : req[r].trace[j].op = "set")
                                    /\ req[r].args.endpoint = "dynamics"
                                    /\ store = StoreRows

\* The positions of the store queries in a request's trace.
QueryAttempts(r) == {i \in DOMAIN req[r].trace : req[r].trace[i].op = "query"}

\* C34: a request whose store query was attempted while the store was
\* unavailable ends in an error (status 500, no body) after exactly one query
\* attempt and without any cache.set.
C34_QueryFailureEndsRequest == \A r \in Requests : (\E i \in QueryAttempts(r) : "exc" \in DOMAIN req[r].trace[i])
                                                    => /\ req[r].pc = "done"
                                                       /\ req[r].status = 500
                                                       /\ req[r].exc # ""
                                                       /\ req[r].body = PyNone
                                                       /\ Cardinality(QueryAttempts(r)) = 1
                                                       /\ \A j \in DOMAIN req[r].trace : req[r].trace[j].op # "set"
                                                       /\ req[r].trace[Len(req[r].trace)] = [op |-> "raise"]

\* A request missed the cache, its store query failed, and it has ended.
C34_Witness == \E r \in Requests : /\ req[r].pc = "done"
                                    /\ req[r].exc = "DBAPIError"
                                    /\ req[r].trace[1].op = "get"
                                    /\ req[r].cache_key \notin DOMAIN redis

\* C35: while one request waits for the reply of the cache backend (inside
\* cache.get or cache.set), every other request of the process can take its
\* next step: a new request can be started, and a request whose store query
\* has completed can be resumed.
C35_CacheWaitDoesNotStallOthers == \A r \in Requests, q \in Requests : (r # q /\ req[r].pc \in {"cache.get", "cache.set"})
                                                                        => /\ (req[q].pc = "idle" => ENABLED (\E a \in LoopArgs : LoopGetSend(q, a)))
                                                                           /\ (req[q].pc = "query" => ENABLED LoopQueryResume(q))

\* The list an envelope carries: `dates` for the dates endpoint, `result` for
\* the other two.
ListOf(envelope) == IF "dates" \in DOMAIN envelope THEN envelope.dates ELSE envelope.result

TotalIsLength(envelope) == envelope.total = Len(ListOf(envelope))

\* C36: in every envelope a handler returns with status 200, built on a miss or
\* served from the cache on a hit, and in every envelope stored in the cache,
\* `total` is the number of elements of the list it carries.
C36_TotalIsListLength == /\ \A r \in Requests : (req[r].pc = "done" /\ req[r].status = 200) => TotalIsLength(req[r].body)
                         /\ \A k \in DOMAIN redis : TotalIsLength(redis[k].data)

\* One request built a non-empty envelope on a miss and another was served it
\* from the cache.
C36_Witness == \E r \in Requests, q \in Requests : /\ req[r].pc = "done" /\ req[r].status = 200 /\ req[r].cached_data = PyNone
                                                    /\ req[q].pc = "done" /\ req[q].status = 200 /\ req[q].cached_data # PyNone
                                                    /\ req[q].cache_key = req[r].cache_key
                                                    /\ req[q].body.total = Len(ListOf(req[q].body))
                                                    /\ req[q].body.total >= 2

====
